---- MODULE Spec2Model ----
(***************************************************************************)
(* Model of notebook/rag-app.ipynb: a retrieval-augmented-generation app.  *)
(*                                                                         *)
(*   create_chunks_from_pdf        load a directory of PDFs, split pages   *)
(*   index_documents_and_retrieve  Qdrant.from_documents + as_retriever    *)
(*   build_rag_chain               {"context": retriever,                  *)
(*                                  "question": RunnablePassthrough()}     *)
(*                                 | prompt | llm | StrOutputParser()      *)
(*   rag_chain.invoke              one query through the chain             *)
(*                                                                         *)
(* A text is a sequence of one-character strings.  The notebook's          *)
(* functions are calls into langchain / qdrant; each operator below that   *)
(* models such a call follows the routine the notebook's line invokes,     *)
(* with the arguments the notebook passes.                                 *)
(***************************************************************************)
EXTENDS Integers, Sequences, FiniteSets, TLC

\* ---------------------------------------------------------------- bounds
MaxLen == 3          \* longest first page, in characters
MaxLen2 == 1         \* longest second page, in characters
MaxChunkSize == 3    \* largest chunk_size tried
MaxDocs == 5         \* longest list of documents handed to the indexer
MaxQueries == 2      \* invocations of the chain in one behaviour

\* ------------------------------------------------------ program constants
DefaultK == 4        \* as_retriever() with no search_kwargs: similarity_search(k=4)

Alphabet == {"a", "b", " ", "\n"}

Min(a, b) == IF a <= b THEN a ELSE b
Max(a, b) == IF a >= b THEN a ELSE b

\* All texts of length 0..n over Alphabet.
TextsUpTo(n) == UNION {[1..m -> Alphabet] : m \in 0..n}

\* Texts of a second page.
SecondTexts(n) == UNION {[1..m -> {"b", " "}] : m \in 0..n}

\* ------------------------------------------------------------------------
\* RecursiveCharacterTextSplitter(chunk_size, chunk_overlap, length_function
\* = len, is_separator_regex = False); separators and keep_separator are the
\* defaults.  A piece of a page is a span <<first, last>> of positions of the
\* page (its text is SubSeq(page, first, last)); every piece the splitter
\* builds is contiguous because keep_separator joins pieces with "".
\* ------------------------------------------------------------------------
separators == << <<"\n", "\n">>, <<"\n">>, <<" ">>, <<>> >>

length_function(span) == span[2] - span[1] + 1

IsWhitespace(c) == c \in {" ", "\n"}

\* sep occurs in page at position i, inside ..last
MatchAt(page, i, last, sep) ==
    /\ i + Len(sep) - 1 <= last
    /\ \A j \in 1..Len(sep) : page[i + j - 1] = sep[j]

\* start positions of the leftmost non-overlapping occurrences (re.split)
RECURSIVE Matches(_, _, _, _)
Matches(page, i, last, sep) ==
    IF i > last THEN <<>>
    ELSE IF MatchAt(page, i, last, sep)
         THEN <<i>> \o Matches(page, i + Len(sep), last, sep)
         ELSE Matches(page, i + 1, last, sep)

\* re.search(separator, text)
Found(page, first, last, sep) == Matches(page, first, last, sep) # <<>>

\* _split_text_with_regex(text, separator, keep_separator = True): the
\* separator stays at the head of the piece that follows it; empty pieces
\* are dropped; an empty separator splits into characters.
split_text_with_regex(page, first, last, sep) ==
    IF sep = <<>>
    THEN [k \in 1..(last - first + 1) |-> <<first + k - 1, first + k - 1>>]
    ELSE LET ms == Matches(page, first, last, sep)
             cuts == <<first>> \o ms \o <<last + 1>>
             pieces == [k \in 1..(Len(cuts) - 1) |-> <<cuts[k], cuts[k + 1] - 1>>]
         IN  SelectSeq(pieces, LAMBDA p : p[1] <= p[2])

\* text.strip()
RECURSIVE Strip(_, _, _)
Strip(page, first, last) ==
    IF first > last THEN <<first, last>>
    ELSE IF IsWhitespace(page[first]) THEN Strip(page, first + 1, last)
    ELSE IF IsWhitespace(page[last]) THEN Strip(page, first, last - 1)
    ELSE <<first, last>>

\* _join_docs(docs, separator = ""): <<>> stands for None
join_docs(page, current_doc) ==
    IF current_doc = <<>> THEN <<>>
    ELSE LET text == Strip(page, current_doc[1][1], current_doc[Len(current_doc)][2])
         IN  IF text[1] > text[2] THEN <<>> ELSE <<text>>

\* The loop below as an `if`: at most one piece is dropped.
PopLoop_once(current_doc, total, len, size, overlap) ==
    IF total > overlap \/ (total + len > size /\ total > 0)
    THEN [current_doc |-> Tail(current_doc),
          total |-> total - length_function(Head(current_doc))]
    ELSE [current_doc |-> current_doc, total |-> total]

\* the `while total > chunk_overlap or (total + _len > chunk_size and
\* total > 0)` loop of _merge_splits; separator_len is len("") = 0
RECURSIVE PopLoop(_, _, _, _, _)
PopLoop(current_doc, total, len, size, overlap) ==
    IF total > overlap \/ (total + len > size /\ total > 0)
    THEN PopLoop(Tail(current_doc), total - length_function(Head(current_doc)),
                 len, size, overlap)
    ELSE [current_doc |-> current_doc, total |-> total]

\* _merge_splits(splits, separator = "")
RECURSIVE MergeLoop(_, _, _, _, _, _, _, _)
MergeLoop(page, splits, i, current_doc, total, out, size, overlap) ==
    IF i > Len(splits)
    THEN out \o join_docs(page, current_doc)
    ELSE LET d == splits[i]
             len == length_function(d)
         IN  IF total + len > size /\ current_doc # <<>>
             THEN LET popped == PopLoop(current_doc, total, len, size, overlap)
                  IN  MergeLoop(page, splits, i + 1,
                                Append(popped.current_doc, d), popped.total + len,
                                out \o join_docs(page, current_doc), size, overlap)
             ELSE MergeLoop(page, splits, i + 1, Append(current_doc, d),
                            total + len, out, size, overlap)

\* The merge with the overlap left out.
merge_splits_no_overlap(page, splits, size, overlap) ==
    MergeLoop(page, splits, 1, <<>>, 0, <<>>, size, 0)

merge_splits(page, splits, size, overlap) ==
    MergeLoop(page, splits, 1, <<>>, 0, <<>>, size, overlap)

\* index of the separator _split_text picks: the first that is "" or occurs
\* in the text; 0 when none does (then separators[-1] with no sub-separators)
RECURSIVE PickSeparator(_, _, _, _, _)
PickSeparator(page, first, last, seps, i) ==
    IF i > Len(seps) THEN 0
    ELSE IF seps[i] = <<>> \/ Found(page, first, last, seps[i]) THEN i
    ELSE PickSeparator(page, first, last, seps, i + 1)

\* RecursiveCharacterTextSplitter._split_text(text, separators)
RECURSIVE split_text_rec(_, _, _, _, _, _)
RECURSIVE SplitLoop(_, _, _, _, _, _, _, _)
SplitLoop(page, splits, i, good_splits, final_chunks, new_separators, size, overlap) ==
    IF i > Len(splits)
    THEN final_chunks \o merge_splits(page, good_splits, size, overlap)
    ELSE LET s == splits[i]
         IN  IF length_function(s) < size
             THEN SplitLoop(page, splits, i + 1, Append(good_splits, s),
                            final_chunks, new_separators, size, overlap)
             ELSE LET flushed == final_chunks \o merge_splits(page, good_splits, size, overlap)
                      other == IF new_separators = <<>>
                               THEN <<s>>
                               ELSE split_text_rec(page, s[1], s[2], new_separators,
                                                   size, overlap)
                  IN  SplitLoop(page, splits, i + 1, <<>>, flushed \o other,
                                new_separators, size, overlap)

split_text_rec(page, first, last, seps, size, overlap) ==
    LET p == PickSeparator(page, first, last, seps, 1)
        separator == IF p = 0 THEN seps[Len(seps)] ELSE seps[p]
        new_separators == IF p = 0 \/ seps[p] = <<>> THEN <<>>
                          ELSE SubSeq(seps, p + 1, Len(seps))
        splits == split_text_with_regex(page, first, last, separator)
    IN  SplitLoop(page, splits, 1, <<>>, <<>>, new_separators, size, overlap)

\* text_splitter.split_text(page): the spans of the page's chunks, in order
split_text(page, size, overlap) ==
    split_text_rec(page, 1, Len(page), separators, size, overlap)


\* ------------------------------------------------------------------------
\* State
\* ------------------------------------------------------------------------
VARIABLES
    pc,              \* where the notebook is
    data_path,       \* what '../data' is on disk
    chunk_size,
    chunk_overlap,
    docs,            \* the list of Documents (chunks)
    spans,           \* for docs[k]: the file and the positions its text came from
    error,           \* the exception that reached the caller, or "none"
    index,           \* the points of the Qdrant collection "my_documents"
    input,           \* the argument of rag_chain.invoke
    retriever_query, \* the query the retriever was run with
    mapping,         \* output of {"context": retriever, "question": RunnablePassthrough()}
    prompt_value,    \* output of prompt
    message,         \* output of llm
    result,          \* what rag_chain.invoke returned
    stages,          \* the steps of the chain run so far in this invocation
    invocations      \* how many times rag_chain.invoke was called

chunker_vars == <<data_path, chunk_size, chunk_overlap, spans>>
chain_vars == <<index, input, retriever_query, mapping, prompt_value, message,
                result, stages, invocations>>
vars == <<pc, data_path, chunk_size, chunk_overlap, docs, spans, error, index,
          input, retriever_query, mapping, prompt_value, message, result,
          stages, invocations>>

Unset == <<>>
NoMessage == [content |-> <<>>, type |-> "none"]
NoMapping == [context |-> <<>>, question |-> <<>>, has |-> {}]

ChainIdle ==
    /\ index = <<>>
    /\ input = <<>>
    /\ retriever_query = <<>>
    /\ mapping = NoMapping
    /\ prompt_value = Unset
    /\ message = NoMessage
    /\ result = Unset
    /\ stages = <<>>
    /\ invocations = 0

\* ------------------------------------------------------------------------
\* create_chunks_from_pdf(data_path, chunk_size, chunk_overlap)
\* ------------------------------------------------------------------------
\* A file PyPDFLoader cannot parse.
Corrupt == <<"corrupt">>

\* DirectoryLoader(data_path, loader_cls = PyPDFLoader).load(): the exception
\* it raises, or "none" (silent_errors is False).
\* The same with silent_errors = True: a file that fails to load is skipped.
LoadErrors_silent(dp) ==
    CASE dp.kind = "missing" -> {"FileNotFoundError"}
      [] dp.kind = "file" -> {"ValueError"}
      [] OTHER -> {"none"}

LoadErrors(dp) ==
    CASE dp.kind = "missing" -> {"FileNotFoundError"}
      [] dp.kind = "file" -> {"ValueError"}
      [] OTHER -> IF \E f \in 1..Len(dp.files) : dp.files[f] = Corrupt
                  THEN {"PdfReadError"} ELSE {"none"}

\* split_documents: every page is split on its own and each chunk becomes a
\* Document carrying its page's metadata.
RECURSIVE SplitDocuments(_, _, _, _)
SplitDocuments(files, f, size, overlap) ==
    IF f > Len(files) THEN <<>>
    ELSE LET sp == split_text(files[f], size, overlap)
         IN  [k \in 1..Len(sp) |-> [file |-> f, first |-> sp[k][1], last |-> sp[k][2]]]
             \o SplitDocuments(files, f + 1, size, overlap)

Document(files, span) ==
    [page_content |-> SubSeq(files[span.file], span.first, span.last),
     metadata |-> [source |-> span.file, page |-> 0]]

create_chunks_from_pdf ==
    /\ pc = "start"
    /\ \E e \in LoadErrors(data_path) :
         IF e # "none"
         THEN /\ pc' = "load_failed"
              /\ error' = e
              /\ UNCHANGED <<docs, spans>>
         ELSE LET sp == SplitDocuments(data_path.files, 1, chunk_size, chunk_overlap)
              IN  /\ spans' = sp
                  /\ docs' = [k \in 1..Len(sp) |-> Document(data_path.files, sp[k])]
                  /\ pc' = "chunked"
                  /\ error' = "none"
    /\ UNCHANGED <<data_path, chunk_size, chunk_overlap>>
    /\ UNCHANGED chain_vars

Directories ==
    {[kind |-> "directory", files |-> fs] :
        fs \in {<<>>}
               \cup {<<t>> : t \in TextsUpTo(MaxLen) \cup {Corrupt}}
               \cup {<<t, u>> : t \in TextsUpTo(MaxLen),
                                u \in SecondTexts(MaxLen2) \cup {Corrupt}}}

DataPaths ==
    Directories \cup {[kind |-> k, files |-> <<>>] : k \in {"missing", "file"}}

InitChunk ==
    /\ pc = "start"
    /\ data_path \in DataPaths
    /\ chunk_size \in 1..MaxChunkSize
    /\ chunk_overlap \in 0..(chunk_size - 1)
    /\ docs = <<>>
    /\ spans = <<>>
    /\ error = "none"
    /\ ChainIdle

NextChunk == create_chunks_from_pdf

SpecChunk == InitChunk /\ [][NextChunk]_vars


\* ------------------------------------------------------------------------
\* Properties of the chunker (checked under SpecChunk)
\* ------------------------------------------------------------------------
RECURSIVE Concat(_)
Concat(ss) == IF ss = <<>> THEN <<>> ELSE Head(ss) \o Concat(Tail(ss))

\* ceil(a / b) for b > 0
CeilDiv(a, b) == -((-a) \div b)

NonWhitespace(text) == SelectSeq(text, LAMBDA c : ~IsWhitespace(c))

InputText == Concat(data_path.files)

Chunked == pc = "chunked"

\* Chunks in order, every chunk after the first without its first o characters.
RECURSIVE Rebuild(_, _, _)
Rebuild(ds, k, o) ==
    IF k > Len(ds) THEN <<>>
    ELSE (IF k = 1 THEN ds[k].page_content
          ELSE SubSeq(ds[k].page_content, o + 1, Len(ds[k].page_content)))
         \o Rebuild(ds, k + 1, o)

\* Chunks of file f in order, every chunk without the positions that the
\* chunks before it already supplied.
RECURSIVE RebuildFile(_, _, _)
RebuildFile(f, k, covered) ==
    IF k > Len(spans) THEN <<>>
    ELSE IF spans[k].file # f THEN RebuildFile(f, k + 1, covered)
    ELSE SubSeq(data_path.files[f], Max(spans[k].first, covered + 1), spans[k].last)
         \o RebuildFile(f, k + 1, Max(covered, spans[k].last))

SingleSolidText ==
    /\ Len(data_path.files) = 1
    /\ Len(data_path.files[1]) >= 1
    /\ NonWhitespace(data_path.files[1]) = data_path.files[1]

LengthsBounded ==
    \A k \in 1..Len(docs) : Len(docs[k].page_content) <= chunk_size

Covered(f, i) ==
    \E k \in 1..Len(spans) :
        spans[k].file = f /\ spans[k].first <= i /\ i <= spans[k].last

NoDocuments == data_path.kind # "directory" \/ data_path.files = <<>>

Count(text, c) == Len(SelectSeq(text, LAMBDA x : x = c))

embeddings(text) == <<1 + Count(text, "a"), 1 + Count(text, "b")>>

Dot(u, v) == u[1] * v[1] + u[2] * v[2]

\* cosine(u, q) >= cosine(v, q); the collection's distance is Cosine
CloserOrEqual(u, v, q) ==
    Dot(u, q) * Dot(u, q) * Dot(v, v) >= Dot(v, q) * Dot(v, q) * Dot(u, u)

\* ------------------------------------------------------------------------
\* index_documents_and_retrieve(docs, embeddings)
\* ------------------------------------------------------------------------
\* Qdrant.from_documents sizes the collection from the embedding of the
\* first text, embed_documents(texts[:1])[0], and then stores one point per
\* document: its vector and its text and metadata as payload.
index_documents_and_retrieve ==
    /\ pc = "chunked"
    /\ IF docs = <<>>
       THEN /\ pc' = "index_failed"
            /\ error' = "IndexError"
            /\ UNCHANGED index
       ELSE /\ index' = [k \in 1..Len(docs) |->
                            [id |-> k,
                             vector |-> embeddings(docs[k].page_content),
                             payload |-> docs[k]]]
            /\ pc' = "indexed"
            /\ UNCHANGED error
    /\ UNCHANGED <<data_path, chunk_size, chunk_overlap, docs, spans>>
    /\ UNCHANGED <<input, retriever_query, mapping, prompt_value, message,
                   result, stages, invocations>>

Range(f) == {f[x] : x \in DOMAIN f}

\* qdrant.as_retriever(): similarity_search(query, k): the k points nearest
\* to the query's vector, best first, ties in any order.  The result is the
\* set of hit lists the search may return (lists of positions in the index).
Nearest(idx, q, n) ==
        {h \in [1..n -> 1..Len(idx)] :
            /\ \A a, b \in 1..n : a # b => h[a] # h[b]
            /\ \A a, b \in 1..n :
                 a < b => CloserOrEqual(idx[h[a]].vector, idx[h[b]].vector, q)
            /\ \A j \in 1..Len(idx) :
                 j \notin Range(h) =>
                    \A a \in 1..n : CloserOrEqual(idx[h[a]].vector, idx[j].vector, q)}

\* The search with its limit off by one.
similarity_search_one_more(idx, q, k) == Nearest(idx, q, Min(k + 1, Len(idx)))

similarity_search(idx, q, k) == Nearest(idx, q, Min(k, Len(idx)))

\* A payload read back with its text cut to the first character.
document_from_scored_point_cut(point) ==
    [page_content |-> SubSeq(point.payload.page_content, 1, 1),
     metadata |-> point.payload.metadata]

\* the Document built from a point's payload
document_from_scored_point(point) ==
    [page_content |-> point.payload.page_content,
     metadata |-> point.payload.metadata]

\* ------------------------------------------------------------------------
\* build_rag_chain(llm, retriever)
\* ------------------------------------------------------------------------
TemplateHead == "\n        Answer the question based only on the following context:\n        \n        "
TemplateMid == "\n        \n        Question: "
TemplateTail == "\n        "

template == <<TemplateHead, "{context}", TemplateMid, "{question}", TemplateTail>>

\* repr of a Document, as str() of a list prints its elements
ReprDocument(d) ==
    <<"Document(page_content='">> \o d.page_content
    \o <<"', metadata={'source': ", ToString(d.metadata.source),
         ", 'page': ", ToString(d.metadata.page), "})">>

RECURSIVE ReprItems(_, _)
ReprItems(ds, k) ==
    IF k > Len(ds) THEN <<>>
    ELSE (IF k > 1 THEN <<", ">> ELSE <<>>) \o ReprDocument(ds[k]) \o ReprItems(ds, k + 1)

\* str(list of Documents)
StrList(ds) == <<"[">> \o ReprItems(ds, 1) \o <<"]">>

\* PromptTemplate.format(**values): every placeholder becomes str(value)
RECURSIVE format(_, _)
format(tpl, values) ==
    IF tpl = <<>> THEN <<>>
    ELSE (CASE Head(tpl) = "{context}" -> StrList(values.context)
            [] Head(tpl) = "{question}" -> values.question
            [] OTHER -> <<Head(tpl)>>)
         \o format(Tail(tpl), values)

\* A branch that yields a fixed question instead of its input.
RunnablePassthrough_fixed(x) == <<"a">>

RunnablePassthrough(x) == x

\* A parser that trims the text.
StrOutputParser_strip(msg) ==
    LET t == Strip(msg.content, 1, Len(msg.content))
    IN  SubSeq(msg.content, t[1], t[2])

\* StrOutputParser: the text of the message
StrOutputParser(msg) == msg.content

build_rag_chain ==
    /\ pc = "indexed"
    /\ pc' = "ready"
    /\ UNCHANGED <<data_path, chunk_size, chunk_overlap, docs, spans, error>>
    /\ UNCHANGED chain_vars

\* ------------------------------------------------------------------------
\* rag_chain.invoke(query)
\* ------------------------------------------------------------------------
Queries == {<<"a">>, <<"b", "a">>}
Answers == {<<"x">>, <<" ", "y", "\n">>}
RetrieverErrors == {"EmbeddingError"}
ModelErrors == {"ConnectionError"}

invoke(query) ==
    /\ pc \in {"ready", "returned", "raised"}
    /\ invocations < MaxQueries
    /\ invocations' = invocations + 1
    /\ input' = query
    /\ retriever_query' = <<>>
    /\ mapping' = NoMapping
    /\ prompt_value' = Unset
    /\ message' = NoMessage
    /\ result' = Unset
    /\ stages' = <<>>
    /\ error' = "none"
    /\ pc' = "parallel"
    /\ UNCHANGED <<data_path, chunk_size, chunk_overlap, docs, spans, index>>

\* first step of the chain, the "context" branch: retriever.invoke(input)
run_retriever ==
    /\ pc = "parallel"
    /\ "context" \notin mapping.has
    /\ retriever_query' = input
    /\ stages' = Append(stages, "retrieve")
    /\ \/ \E h \in similarity_search(index, embeddings(input), DefaultK) :
            /\ mapping' = [mapping EXCEPT
                              !.context = [j \in 1..Len(h) |->
                                              document_from_scored_point(index[h[j]])],
                              !.has = @ \cup {"context"}]
            /\ pc' = IF "question" \in mapping.has THEN "prompt" ELSE "parallel"
            /\ UNCHANGED error
       \/ \E e \in RetrieverErrors :
            /\ error' = e
            /\ pc' = "raised"
            /\ UNCHANGED mapping
    /\ UNCHANGED <<data_path, chunk_size, chunk_overlap, docs, spans, index>>
    /\ UNCHANGED <<input, prompt_value, message, result, invocations>>

\* first step of the chain, the "question" branch: RunnablePassthrough()
run_passthrough ==
    /\ pc = "parallel"
    /\ "question" \notin mapping.has
    /\ mapping' = [mapping EXCEPT !.question = RunnablePassthrough(input),
                                  !.has = @ \cup {"question"}]
    /\ stages' = Append(stages, "passthrough")
    /\ pc' = IF "context" \in mapping.has THEN "prompt" ELSE "parallel"
    /\ UNCHANGED <<data_path, chunk_size, chunk_overlap, docs, spans, error, index>>
    /\ UNCHANGED <<input, retriever_query, prompt_value, message, result, invocations>>

\* second step: prompt
format_prompt ==
    /\ pc = "prompt"
    /\ prompt_value' = format(template, mapping)
    /\ stages' = Append(stages, "prompt")
    /\ pc' = "llm"
    /\ UNCHANGED <<data_path, chunk_size, chunk_overlap, docs, spans, error, index>>
    /\ UNCHANGED <<input, retriever_query, mapping, message, result, invocations>>

\* llm.with_retry(): a failed call is made once more before it is raised.
call_llm_retry ==
    /\ pc = "llm"
    /\ \/ \E a \in Answers :
            /\ message' = [content |-> a, type |-> "ai"]
            /\ stages' = Append(stages, "llm")
            /\ pc' = "parse"
            /\ UNCHANGED error
       \/ \E e \in ModelErrors :
            /\ error' = e
            /\ stages' = stages \o <<"llm", "llm">>
            /\ pc' = "raised"
            /\ UNCHANGED message
    /\ UNCHANGED <<data_path, chunk_size, chunk_overlap, docs, spans, index>>
    /\ UNCHANGED <<input, retriever_query, mapping, prompt_value, result, invocations>>

\* third step: llm
call_llm ==
    /\ pc = "llm"
    /\ stages' = Append(stages, "llm")
    /\ \/ \E a \in Answers :
            /\ message' = [content |-> a, type |-> "ai"]
            /\ pc' = "parse"
            /\ UNCHANGED error
       \/ \E e \in ModelErrors :
            /\ error' = e
            /\ pc' = "raised"
            /\ UNCHANGED message
    /\ UNCHANGED <<data_path, chunk_size, chunk_overlap, docs, spans, index>>
    /\ UNCHANGED <<input, retriever_query, mapping, prompt_value, result, invocations>>

\* fourth step: StrOutputParser(); its output is what invoke returns
parse_output ==
    /\ pc = "parse"
    /\ result' = StrOutputParser(message)
    /\ stages' = Append(stages, "parse")
    /\ pc' = "returned"
    /\ UNCHANGED <<data_path, chunk_size, chunk_overlap, docs, spans, error, index>>
    /\ UNCHANGED <<input, retriever_query, mapping, prompt_value, message, invocations>>

\* ------------------------------------------------------------------------
\* The notebook, top to bottom
\* ------------------------------------------------------------------------
Words == UNION {[1..m -> {"a", "b"}] : m \in 0..MaxDocs}

NotebookPaths ==
    {[kind |-> "directory", files |-> fs] : fs \in {<<>>} \cup {<<t>> : t \in Words}}
    \cup {[kind |-> "missing", files |-> <<>>]}

Init ==
    /\ pc = "start"
    /\ data_path \in NotebookPaths
    /\ chunk_size \in 1..MaxChunkSize
    /\ chunk_overlap \in 0..(chunk_size - 1)
    /\ docs = <<>>
    /\ spans = <<>>
    /\ error = "none"
    /\ ChainIdle

Next ==
    \/ create_chunks_from_pdf
    \/ index_documents_and_retrieve
    \/ build_rag_chain
    \/ \E query \in Queries : invoke(query)
    \/ run_retriever
    \/ run_passthrough
    \/ format_prompt
    \/ call_llm
    \/ parse_output

Spec == Init /\ [][Next]_vars

\* ------------------------------------------------------------------------
\* Properties of the chain (checked under Spec)
\* ------------------------------------------------------------------------
ChainOrder == <<"retrieve", "prompt", "llm", "parse">>

\* the steps of the sequence, without the passthrough branch of its first step
Pipeline(st) == SelectSeq(st, LAMBDA s : s # "passthrough")

IsPrefix(a, b) == Len(a) <= Len(b) /\ a = SubSeq(b, 1, Len(a))

Times(st, s) == Len(SelectSeq(st, LAMBDA x : x = s))

Indexed == pc \in {"indexed", "ready", "parallel", "prompt", "llm", "parse",
                   "returned", "raised"}

\* C1: in every invocation the steps run in the order retrieve, prompt, llm,
\* return; the model is called once, after the retrieval for this query has
\* completed, and the string returned is the text of the model's message.
C1_StageOrder ==
    /\ IsPrefix(Pipeline(stages), ChainOrder)
    /\ Times(stages, "llm") <= 1
    /\ Times(stages, "llm") = 1 =>
         ("context" \in mapping.has /\ retriever_query = input)
    /\ pc = "returned" =>
         /\ Pipeline(stages) = ChainOrder
         /\ message.type = "ai"
         /\ result = message.content

C1_Witness ==
    /\ pc = "returned"
    /\ invocations = 2
    /\ result = <<" ", "y", "\n">>

\* C2: retrieval returns min(k, number of index entries) entries: never more
\* than k, and fewer only when the index holds fewer.
C2_TopK ==
    "context" \in mapping.has =>
        Len(mapping.context) = Min(DefaultK, Len(index))

C2_Witness ==
    /\ "context" \in mapping.has
    /\ Len(index) > DefaultK
    /\ Len(mapping.context) = DefaultK

\* C5 as stated: indexing zero documents gives an empty index and no error;
\* a query on the empty index retrieves nothing and the model is still
\* called once, with an empty context.
C5_AsStated ==
    /\ (docs = <<>> /\ pc \notin {"start", "load_failed", "chunked"}) =>
         (pc # "index_failed" /\ error = "none" /\ index = <<>>)
    /\ (Indexed /\ index = <<>> /\ "context" \in mapping.has) =>
         mapping.context = <<>>
    /\ (Indexed /\ index = <<>> /\ pc = "returned") =>
         Times(stages, "llm") = 1

\* C6: a failing step ends the invocation with its own error: the step is
\* not run again, no later step runs and nothing is returned.
C6_FailureSurfaces ==
    pc = "raised" =>
        /\ result = Unset
        /\ error \in RetrieverErrors \cup ModelErrors
        /\ error \in RetrieverErrors =>
             /\ Pipeline(stages) = <<"retrieve">>
             /\ prompt_value = Unset
             /\ message = NoMessage
        /\ error \in ModelErrors =>
             /\ Pipeline(stages) = <<"retrieve", "prompt", "llm">>
             /\ message = NoMessage

C6_Witness ==
    /\ pc = "raised"
    /\ error \in ModelErrors
    /\ invocations = 2

\* C8: once built, the index holds exactly the documents that were inserted,
\* whatever queries have run, and every retrieved text is the text of an
\* inserted chunk.
C8_IndexFrozen ==
    Indexed =>
        /\ Len(index) = Len(docs)
        /\ \A k \in 1..Len(index) :
             /\ index[k].payload = docs[k]
             /\ index[k].vector = embeddings(docs[k].page_content)
        /\ \A j \in 1..Len(mapping.context) :
             \E k \in 1..Len(docs) :
                 mapping.context[j].page_content = docs[k].page_content

C8_Witness ==
    /\ pc = "returned"
    /\ invocations = 2
    /\ Len(mapping.context) >= 2
    /\ \E j, k \in 1..Len(mapping.context) :
         mapping.context[j].page_content # mapping.context[k].page_content

RECURSIVE ConcatTexts(_, _)
ConcatTexts(ds, k) ==
    IF k > Len(ds) THEN <<>> ELSE ds[k].page_content \o ConcatTexts(ds, k + 1)

\* C9 as stated: the prompt is the template with {context} replaced by the
\* concatenated texts of the retrieved entries, and nothing but their texts,
\* and {question} by the query.
C9_AsStated ==
    prompt_value # Unset =>
        prompt_value = <<TemplateHead>> \o ConcatTexts(mapping.context, 1)
                       \o <<TemplateMid>> \o input \o <<TemplateTail>>

\* C10: the string passed to invoke is the query the retriever ran with and
\* the question in the prompt.
C10_SameQuestion ==
    /\ "context" \in mapping.has => retriever_query = input
    /\ "question" \in mapping.has => mapping.question = input
    /\ prompt_value # Unset =>
         prompt_value = format(template, [context |-> mapping.context,
                                          question |-> input])

C10_Witness ==
    /\ pc = "llm"
    /\ invocations = 2
    /\ input = <<"b", "a">>

====
